---------------------------- MODULE Spec2Model ----------------------------
(***************************************************************************)
(* KvickStore (src/KvickStore.py): an in-memory dict persisted as one JSON *)
(* file.  The model covers the key codec, every public operation of the    *)
(* class, and the save protocol (worker thread, temporary file, rename).   *)
(*                                                                         *)
(* Python objects are tagged tuples, the tag first:                        *)
(*   <<"int", n>>  <<"float", kind, h>>  <<"str", chars>>  <<"bool", b>>   *)
(*   <<"none">>  <<"list", elems>>  <<"tuple", elems>>  <<"dict", items>>  *)
(*   <<"set">>                                                             *)
(* A str is the sequence of its characters.  A finite float is counted in  *)
(* halves (h = 3 is 1.5); kind is "fin", "inf" or "nan".  <<"set">> is an  *)
(* empty Python set: a value json.dump cannot serialize.                   *)
(***************************************************************************)
EXTENDS Integers, Sequences, FiniteSets, TLC

VARIABLES
    db,          \* self.db: the dict, as its items <<encoded key, value>> in insertion order
    auto_save,   \* self.auto_save
    file,        \* the file at self.location: [exists, data]
    tmp,         \* the temporary file of the call's save, while the call lasts: [exists, data]
    pc,          \* where the calling thread and the save worker are
    save_thread, \* self.save_thread: "none" (None), or the Thread: "new", "running", "ended"
    last,        \* the call in progress: [op, key, val, ret, wrote, worker], or NoCall
    noted,       \* the caller's note of a set it made: <<"set", key, val>>, or of a
                 \* list it builds: <<"list", key, list of the items added>>, or Nil
    budget,      \* mutations the caller still makes
    tempdir,     \* where tempfile.gettempdir() is: "same_fs" as the directory of
                 \* self.location, or "other_fs"
    term         \* SIGTERM: "no", or sigterm_handler is in join() ("join"), has
                 \* called sys.exit(0) ("exit0"), or has raised ("raised")

vars == <<db, auto_save, file, tmp, pc, save_thread, last, noted, budget, tempdir, term>>

-----------------------------------------------------------------------------
(* Python objects *)

PyInt(n) == <<"int", n>>
PyFloat(h) == <<"float", "fin", h>>
PyInf == <<"float", "inf", 1>>
PyStr(chars) == <<"str", chars>>
PyBool(b) == <<"bool", b>>
PyNone == <<"none">>
PyList(elems) == <<"list", elems>>
PyTuple(elems) == <<"tuple", elems>>
PyDict(items) == <<"dict", items>>
PySet == <<"set">>

\* No argument, or no result yet.
Nil == <<"nil">>
\* An exception leaving a call.
Raise(exc) == <<"raise", exc>>
IsRaise(r) == r[1] = "raise"

\* isinstance(obj, types): bool is a subclass of int.
isinstance(obj, types) ==
    \/ obj[1] \in types
    \/ obj[1] = "bool" /\ "int" \in types

\* s.startswith(prefix)
startswith(s, prefix) ==
    /\ Len(s) >= Len(prefix)
    /\ SubSeq(s, 1, Len(prefix)) = prefix

DigitChars == <<"0", "1", "2", "3", "4", "5", "6", "7", "8", "9">>

\* str(n) of an int: its decimal digits.
RECURSIVE IntToStr(_)
IntToStr(n) ==
    IF n < 0 THEN <<"-">> \o IntToStr(-n)
    ELSE IF n < 10 THEN <<DigitChars[n + 1]>>
    ELSE IntToStr(n \div 10) \o <<DigitChars[(n % 10) + 1]>>

\* repr(x) of a float: "inf", "nan", or the shortest decimal text (below 1e16).
FloatRepr(x) ==
    LET a == IF x[3] < 0 THEN -x[3] ELSE x[3]
        sign == IF x[3] < 0 THEN <<"-">> ELSE <<>>
    IN  CASE x[2] = "inf" -> sign \o <<"i", "n", "f">>
          [] x[2] = "nan" -> <<"n", "a", "n">>
          [] OTHER -> sign \o IntToStr(a \div 2) \o <<".">>
                        \o (IF a % 2 = 0 THEN <<"0">> ELSE <<"5">>)

\* ", ".join(parts)
RECURSIVE JoinComma(_)
JoinComma(parts) ==
    IF parts = <<>> THEN <<>>
    ELSE IF Len(parts) = 1 THEN parts[1]
    ELSE parts[1] \o <<",", " ">> \o JoinComma(Tail(parts))

\* repr(obj).  A str is rendered in single quotes (no quote or backslash
\* occurs in the strings of the model).
RECURSIVE PyRepr(_)
PyRepr(obj) ==
    CASE obj[1] = "int" -> IntToStr(obj[2])
      [] obj[1] = "float" -> FloatRepr(obj)
      [] obj[1] = "bool" -> IF obj[2] THEN <<"T", "r", "u", "e">>
                                      ELSE <<"F", "a", "l", "s", "e">>
      [] obj[1] = "none" -> <<"N", "o", "n", "e">>
      [] obj[1] = "str" -> <<"'">> \o obj[2] \o <<"'">>
      [] obj[1] = "list" ->
            <<"[">> \o JoinComma([i \in 1..Len(obj[2]) |-> PyRepr(obj[2][i])]) \o <<"]">>
      [] obj[1] = "tuple" ->
            IF Len(obj[2]) = 1 THEN <<"(">> \o PyRepr(obj[2][1]) \o <<",", ")">>
            ELSE <<"(">> \o JoinComma([i \in 1..Len(obj[2]) |-> PyRepr(obj[2][i])])
                    \o <<")">>
      [] obj[1] = "dict" ->
            <<"{">> \o JoinComma([i \in 1..Len(obj[2]) |->
                        PyRepr(obj[2][i][1]) \o <<":", " ">> \o PyRepr(obj[2][i][2])])
                \o <<"}">>
      [] OTHER -> <<"s", "e", "t", "(", ")">>

\* str(obj): a str is itself, anything else its repr.
str(obj) == IF obj[1] = "str" THEN obj[2] ELSE PyRepr(obj)

IsDigits(s) == s /= <<>> /\ \A i \in 1..Len(s) : \E d \in 1..10 : DigitChars[d] = s[i]

DigitValue(c) == (CHOOSE d \in 1..10 : DigitChars[d] = c) - 1

RECURSIVE StrToInt(_)
StrToInt(s) ==
    IF Len(s) = 1 THEN DigitValue(s[1])
    ELSE 10 * StrToInt(SubSeq(s, 1, Len(s) - 1)) + DigitValue(s[Len(s)])

\* ast.literal_eval(text) on the texts str() gives a number key: True and
\* False, a signed integer, a signed decimal; a bare name such as inf or nan
\* is no literal and raises ValueError.
literal_eval(text) ==
    LET neg == text /= <<>> /\ text[1] = "-"
        body == IF neg THEN Tail(text) ELSE text
        dots == {i \in 1..Len(body) : body[i] = "."}
        sgn == IF neg THEN -1 ELSE 1
    IN  IF text = <<"T", "r", "u", "e">> THEN PyBool(TRUE)
        ELSE IF text = <<"F", "a", "l", "s", "e">> THEN PyBool(FALSE)
        ELSE IF IsDigits(body) THEN PyInt(sgn * StrToInt(body))
        ELSE IF Cardinality(dots) = 1
                /\ LET d == CHOOSE i \in dots : TRUE
                   IN  /\ IsDigits(SubSeq(body, 1, d - 1))
                       /\ SubSeq(body, d + 1, Len(body)) \in {<<"0">>, <<"5">>}
             THEN LET d == CHOOSE i \in dots : TRUE
                      whole == StrToInt(SubSeq(body, 1, d - 1))
                      half == IF body[d + 1] = "5" THEN 1 ELSE 0
                  IN  PyFloat(sgn * (2 * whole + half))
        ELSE Raise("ValueError")

\* s.split(", ")
RECURSIVE SplitCommaSpace(_)
SplitCommaSpace(s) ==
    LET hits == {i \in 1..(Len(s) - 1) : s[i] = "," /\ s[i + 1] = " "}
    IN  IF hits = {} THEN <<s>>
        ELSE LET i == CHOOSE j \in hits : \A k \in hits : j <= k
             IN  <<SubSeq(s, 1, i - 1)>> \o SplitCommaSpace(SubSeq(s, i + 2, Len(s)))

\* s[1:-1]
StripEnds(s) == SubSeq(s, 2, Len(s) - 1)

-----------------------------------------------------------------------------
(* The key codec *)

\* The prefix reserved for number keys.
NumPrefix == <<"~", "n", "u", "m", "~">>

KeyTypes == {"int", "float", "str", "list", "tuple"}

\* _check_key_format_error: "ok", or the exception it raises.
_check_key_format_error(key) ==
    IF ~isinstance(key, KeyTypes) THEN "TypeError"
    ELSE IF isinstance(key, {"str"}) /\ startswith(key[2], NumPrefix) THEN "ValueError"
    ELSE "ok"

\* A variant of _transform_key_forward that leaves the prefix off number keys.
forward_without_prefix(key) ==
    IF isinstance(key, {"list", "tuple"}) THEN str(key)
    ELSE IF isinstance(key, {"float", "int"}) THEN str(key)
    ELSE key[2]

\* _transform_key_forward: the dict key (a str) of a caller's key.
_transform_key_forward(key) ==
    IF isinstance(key, {"list", "tuple"}) THEN str(key)
    ELSE IF isinstance(key, {"float", "int"}) THEN NumPrefix \o str(key)
    ELSE key[2]

\* _transform_key_backward: the key a dict key is listed as (or the
\* exception literal_eval raises).
_transform_key_backward(key) ==
    IF startswith(key, NumPrefix) THEN literal_eval(SubSeq(key, Len(NumPrefix) + 1, Len(key)))
    ELSE IF startswith(key, <<"(">>) THEN
        LET parts == SplitCommaSpace(StripEnds(key))
        IN  PyTuple([i \in 1..Len(parts) |-> PyStr(parts[i])])
    ELSE IF startswith(key, <<"[">>) THEN
        LET parts == SplitCommaSpace(StripEnds(key))
        IN  PyList([i \in 1..Len(parts) |-> PyStr(parts[i])])
    ELSE PyStr(key)

-----------------------------------------------------------------------------
(* dict operations on the items of self.db *)

DictKeys(d) == {d[i][1] : i \in 1..Len(d)}

DictIndex(d, k) == CHOOSE i \in 1..Len(d) : d[i][1] = k

\* d[k], for k in d
DictGet(d, k) == d[DictIndex(d, k)][2]

\* d[k] = v: an existing key keeps its place, a new one goes last.
DictSet(d, k, v) ==
    IF k \in DictKeys(d) THEN [d EXCEPT ![DictIndex(d, k)] = <<k, v>>]
    ELSE Append(d, <<k, v>>)

\* d.pop(k), for k in d: the items left.
DictPop(d, k) ==
    LET i == DictIndex(d, k)
    IN  SubSeq(d, 1, i - 1) \o SubSeq(d, i + 1, Len(d))

-----------------------------------------------------------------------------
(* Python built-ins the operations use *)

IsIterable(x) == x[1] \in {"list", "tuple", "str", "dict", "set"}

\* The elements iterating x yields: a str gives its characters, a dict its keys.
Iterate(x) ==
    CASE x[1] \in {"list", "tuple"} -> x[2]
      [] x[1] = "str" -> [i \in 1..Len(x[2]) |-> PyStr(<<x[2][i]>>)]
      [] x[1] = "dict" -> [i \in 1..Len(x[2]) |-> x[2][i][1]]
      [] OTHER -> <<>>

\* list(x): a new list of x's elements, or TypeError when x is not iterable.
list(x) == IF IsIterable(x) THEN PyList(Iterate(x)) ELSE Raise("TypeError")

\* A number counted in halves: True is 1, False is 0.
Halves(x) ==
    CASE x[1] = "int" -> 2 * x[2]
      [] x[1] = "bool" -> IF x[2] THEN 2 ELSE 0
      [] OTHER -> x[3]

\* a + b on numbers: a float when either is a float (inf absorbs), else an int.
NumAdd(a, b) ==
    IF a[1] = "float" /\ a[2] /= "fin" THEN a
    ELSE IF b[1] = "float" /\ b[2] /= "fin" THEN b
    ELSE IF a[1] = "float" \/ b[1] = "float" THEN PyFloat(Halves(a) + Halves(b))
    ELSE PyInt((Halves(a) + Halves(b)) \div 2)

-----------------------------------------------------------------------------
(* JSON and the files *)

\* What json.load gives back for a value json.dump wrote: a tuple comes back
\* as a list, a dict's keys as strings.
RECURSIVE Jsonify(_)
Jsonify(v) ==
    CASE v[1] \in {"list", "tuple"} -> PyList([i \in 1..Len(v[2]) |-> Jsonify(v[2][i])])
      [] v[1] = "dict" ->
            PyDict([i \in 1..Len(v[2]) |-> <<PyStr(str(v[2][i][1])), Jsonify(v[2][i][2])>>])
      [] OTHER -> v

\* Whether json.dump can write v.
RECURSIVE Serializable(_)
Serializable(v) ==
    CASE v[1] \in {"list", "tuple"} -> \A i \in 1..Len(v[2]) : Serializable(v[2][i])
      [] v[1] = "dict" -> \A i \in 1..Len(v[2]) :
                              /\ v[2][i][1][1] \in {"str", "int"}
                              /\ Serializable(v[2][i][2])
      [] v[1] = "set" -> FALSE
      [] OTHER -> TRUE

\* A file's data is the sequence of chunks written to it.
LBrace == <<"{">>
RBrace == <<"}">>
KeyChunk(k) == <<"key", k>>
ValChunk(v) == <<"val", Jsonify(v)>>

NoFile == [exists |-> FALSE, data |-> <<>>]
FileOf(data) == [exists |-> TRUE, data |-> data]

\* json.dump(d, f) of a complete write: the text of the whole dict.
RECURSIVE ItemChunks(_)
ItemChunks(d) ==
    IF d = <<>> THEN <<>>
    ELSE <<KeyChunk(d[1][1]), ValChunk(d[1][2])>> \o ItemChunks(Tail(d))

Serialize(d) == <<LBrace>> \o ItemChunks(d) \o <<RBrace>>

\* The first item json.dump cannot write, or 0.
FirstBad(d) ==
    LET bad == {i \in 1..Len(d) : ~Serializable(d[i][2])}
    IN  IF bad = {} THEN 0 ELSE CHOOSE i \in bad : \A j \in bad : i <= j

\* What json.dump(d, f) has written when it returns or raises TypeError: all
\* of the text, or the text up to the key of the first item it cannot write.
DumpOutput(d) ==
    IF FirstBad(d) = 0 THEN Serialize(d)
    ELSE <<LBrace>> \o ItemChunks(SubSeq(d, 1, FirstBad(d) - 1))
            \o <<KeyChunk(d[FirstBad(d)][1])>>

\* json.load(f): the items of the object the data holds, or ValueError.
IsObjectText(data) ==
    /\ Len(data) >= 2
    /\ Len(data) % 2 = 0
    /\ data[1] = LBrace
    /\ data[Len(data)] = RBrace
    /\ \A i \in 2..(Len(data) - 1) : data[i][1] = (IF i % 2 = 0 THEN "key" ELSE "val")

\* The data is the text of one JSON value that is not an object.
IsValueText(data) == Len(data) = 1 /\ data[1][1] = "val"

\* json.load returns whatever value the text holds: <<"ok", items>> for an
\* object, <<"other", value>> for a list, number, string, true, false or null.
json_load(data) ==
    IF IsObjectText(data)
    THEN <<"ok", [i \in 1..((Len(data) - 2) \div 2) |-> <<data[2 * i][2], data[2 * i + 1][2]>>]>>
    ELSE IF IsValueText(data) THEN <<"other", data[1][2]>>
    ELSE Raise("ValueError")

\* A variant of _load that takes an empty file for invalid JSON too.
_load_no_empty(f) ==
    IF ~IsRaise(json_load(f.data)) THEN json_load(f.data)
    ELSE Raise("ValueError")

\* _load: what self.db becomes from an existing file (json.load's value,
\* or the empty dict for an empty file), or ValueError ("Invalid JSON
\* format") when the file is neither empty nor JSON text.
_load(f) ==
    IF ~IsRaise(json_load(f.data)) THEN json_load(f.data)
    ELSE IF Len(f.data) = 0 THEN <<"ok", <<>>>>
    ELSE Raise("ValueError")

\* KvickStore.load: a missing file gives an empty store.
LoadResult(f) == IF f.exists THEN _load(f) ELSE <<"ok", <<>>>>

-----------------------------------------------------------------------------
(* The calls.  A call is made when no other is in progress (pc = "idle").  *)
(* Its result is recorded in last.ret when the call starts and is the      *)
(* caller's at pc = "ret", when the call returns.  A call that reaches     *)
(* _auto_save with auto_save on has executed line 99 of save() (the worker *)
(* is created and assigned) and goes on at line 100.                       *)

\* wrote: the call stored into self.db.  worker: "none", or how the save
\* worker of the call ended: "ok", or "raised" (threading prints the
\* exception to stderr and the thread ends).
Call(op, key, val, ret, wrote) ==
    [op |-> op, key |-> key, val |-> val, ret |-> ret, wrote |-> wrote,
     worker |-> "none"]

NoCall == Call("none", Nil, Nil, Nil, FALSE)

\* The caller notes the key and value of a set it made, and keeps the note
\* until its next call of a writing method with that key.
NoteSet(key, val) ==
    noted' = IF noted = Nil \/ noted[2] = key THEN <<"set", key, val>> ELSE noted
NoteWrite(key) == noted' = IF noted /= Nil /\ noted[2] = key THEN Nil ELSE noted

\* The caller notes the list it starts with list_create on a key that has
\* no entry, and each item it adds to it with list_add.
NoteCreate(key, fresh) ==
    noted' = IF fresh /\ (noted = Nil \/ noted[2] = key)
             THEN <<"list", key, PyList(<<>>)>>
             ELSE IF noted /= Nil /\ noted[2] = key THEN Nil ELSE noted
NoteAdd(key, val) ==
    noted' = IF noted /= Nil /\ noted[2] = key
             THEN IF noted[1] = "list"
                  THEN <<"list", key, PyList(Append(noted[3][2], val))>>
                  ELSE Nil
             ELSE noted

\* The call ends without reaching _auto_save.
Return(op, key, val, ret) ==
    /\ last' = Call(op, key, val, ret, FALSE)
    /\ pc' = "ret"
    /\ UNCHANGED <<db, auto_save, file, tmp, save_thread, budget, tempdir, term>>

\* save(), line 99: the worker is created and assigned to self.save_thread.
save_line99 ==
    /\ save_thread' = "new"
    /\ pc' = "line100"

\* A variant of _auto_save that saves whatever auto_save is.
_auto_save_always == save_line99

\* _auto_save(): save() if auto_save is on.
_auto_save ==
    IF auto_save THEN save_line99 ELSE pc' = "ret" /\ UNCHANGED save_thread

\* The call changed the store and ends through _auto_save.
ReturnSaving(op, key, val, ret, newdb) ==
    /\ budget > 0
    /\ budget' = budget - 1
    /\ db' = newdb
    /\ last' = Call(op, key, val, ret, TRUE)
    /\ _auto_save
    /\ UNCHANGED <<auto_save, file, tmp, tempdir, term>>

\* The caller has the result of the call and can make the next one.
call_returns ==
    /\ pc = "ret"
    /\ pc' = "idle"
    /\ last' = NoCall
    /\ tmp' = NoFile
    /\ UNCHANGED <<db, auto_save, file, save_thread, noted, budget, tempdir, term>>

\* A variant of set that stores the value before it checks the key's format.
set_checks_late(key, val) ==
    /\ pc = "idle"
    /\ IF ~isinstance(key, KeyTypes)
       THEN /\ Return("set", key, val, Raise("TypeError"))
            /\ UNCHANGED noted
       ELSE /\ ReturnSaving("set", key, val,
                            IF _check_key_format_error(key) /= "ok"
                            THEN Raise(_check_key_format_error(key)) ELSE PyNone,
                            DictSet(db, _transform_key_forward(key), val))
            /\ NoteSet(key, val)

set(key, val) ==
    /\ pc = "idle"
    /\ IF _check_key_format_error(key) /= "ok"
       THEN /\ Return("set", key, val, Raise(_check_key_format_error(key)))
            /\ UNCHANGED noted
       ELSE /\ ReturnSaving("set", key, val, PyNone,
                            DictSet(db, _transform_key_forward(key), val))
            /\ NoteSet(key, val)

\* The result of get(key) on the dict d.
get_result(d, key) ==
    IF _check_key_format_error(key) /= "ok" THEN Raise(_check_key_format_error(key))
    ELSE IF _transform_key_forward(key) \in DictKeys(d)
         THEN DictGet(d, _transform_key_forward(key))
    ELSE PyBool(FALSE)

get(key) ==
    /\ pc = "idle"
    /\ Return("get", key, Nil, get_result(db, key))
    /\ UNCHANGED noted

\* A variant of rm that goes through _auto_save when the key is absent too.
rm_saves_always(key) ==
    /\ pc = "idle"
    /\ NoteWrite(key)
    /\ LET k == _transform_key_forward(key)
       IN  IF _check_key_format_error(key) /= "ok"
           THEN Return("rm", key, Nil, Raise(_check_key_format_error(key)))
           ELSE IF k \in DictKeys(db)
                THEN ReturnSaving("rm", key, Nil, PyTuple(<<key, DictGet(db, k)>>),
                                  DictPop(db, k))
           ELSE ReturnSaving("rm", key, Nil, PyBool(FALSE), db)

\* A variant of rm that returns the dict key in place of the caller's key.
rm_returns_dict_key(key) ==
    /\ pc = "idle"
    /\ NoteWrite(key)
    /\ LET k == _transform_key_forward(key)
       IN  IF _check_key_format_error(key) /= "ok"
           THEN Return("rm", key, Nil, Raise(_check_key_format_error(key)))
           ELSE IF k \in DictKeys(db)
                THEN ReturnSaving("rm", key, Nil, PyTuple(<<PyStr(k), DictGet(db, k)>>),
                                  DictPop(db, k))
           ELSE Return("rm", key, Nil, PyBool(FALSE))

rm(key) ==
    /\ pc = "idle"
    /\ NoteWrite(key)
    /\ LET k == _transform_key_forward(key)
       IN  IF _check_key_format_error(key) /= "ok"
           THEN Return("rm", key, Nil, Raise(_check_key_format_error(key)))
           ELSE IF k \in DictKeys(db)
                THEN ReturnSaving("rm", key, Nil, PyTuple(<<key, DictGet(db, k)>>),
                                  DictPop(db, k))
           ELSE Return("rm", key, Nil, PyBool(FALSE))

\* The result of get_all_keys() on the dict d: every key decoded, or the
\* exception the first key that fails to decode raises.
get_all_keys_result(d) ==
    LET decoded == [i \in 1..Len(d) |-> _transform_key_backward(d[i][1])]
        failed == {i \in 1..Len(d) : IsRaise(decoded[i])}
    IN  IF failed = {} THEN PyList(decoded)
        ELSE decoded[CHOOSE i \in failed : \A j \in failed : i <= j]

get_all_keys ==
    /\ pc = "idle"
    /\ Return("get_all_keys", Nil, Nil, get_all_keys_result(db))
    /\ UNCHANGED noted

get_all_values ==
    /\ pc = "idle"
    /\ Return("get_all_values", Nil, Nil, PyList([i \in 1..Len(db) |-> db[i][2]]))
    /\ UNCHANGED noted

\* A variant of append_outcome that puts the new item first.
append_outcome_in_front(d, key, val_to_append) ==
    LET k == _transform_key_forward(key)
    IN  IF _check_key_format_error(key) /= "ok"
        THEN <<Raise(_check_key_format_error(key)), d, FALSE>>
        ELSE IF k \notin DictKeys(d) THEN <<PyBool(FALSE), d, FALSE>>
        ELSE IF IsRaise(list(DictGet(d, k))) THEN <<list(DictGet(d, k)), d, FALSE>>
        ELSE LET vals == PyList(<<val_to_append>> \o list(DictGet(d, k))[2])
             IN  <<PyTuple(<<key, vals>>), DictSet(d, k, vals), TRUE>>

\* append's result and the dict it leaves: <<result, dict, whether it
\* stored (and so reaches _auto_save)>>.  list() of a value that is not
\* iterable raises TypeError, which append does not catch.
append_outcome(d, key, val_to_append) ==
    LET k == _transform_key_forward(key)
    IN  IF _check_key_format_error(key) /= "ok"
        THEN <<Raise(_check_key_format_error(key)), d, FALSE>>
        ELSE IF k \notin DictKeys(d) THEN <<PyBool(FALSE), d, FALSE>>
        ELSE IF IsRaise(list(DictGet(d, k))) THEN <<list(DictGet(d, k)), d, FALSE>>
        ELSE LET vals == PyList(Append(list(DictGet(d, k))[2], val_to_append))
             IN  <<PyTuple(<<key, vals>>), DictSet(d, k, vals), TRUE>>

append(key, val_to_append) ==
    /\ pc = "idle"
    /\ NoteWrite(key)
    /\ LET out == append_outcome(db, key, val_to_append)
       IN  IF out[3] THEN ReturnSaving("append", key, val_to_append, out[1], out[2])
           ELSE Return("append", key, val_to_append, out[1])

\* The result is built after _auto_save: _transform_key_backward can raise
\* there, once the sum is stored and saved.
add_to_str_or_num(key, val_to_add) ==
    /\ pc = "idle"
    /\ NoteWrite(key)
    /\ LET k == _transform_key_forward(key)
           val == DictGet(db, k)
           sum == IF isinstance(val, {"str"}) THEN PyStr(val[2] \o val_to_add[2])
                  ELSE NumAdd(val, val_to_add)
           back == _transform_key_backward(k)
       IN  IF _check_key_format_error(key) /= "ok"
           THEN Return("add_to_str_or_num", key, val_to_add,
                       Raise(_check_key_format_error(key)))
           ELSE IF k \notin DictKeys(db)
                THEN Return("add_to_str_or_num", key, val_to_add, PyBool(FALSE))
           ELSE IF \/ isinstance(val, {"int", "float"})
                      /\ isinstance(val_to_add, {"int", "float"})
                   \/ isinstance(val, {"str"}) /\ isinstance(val_to_add, {"str"})
                THEN ReturnSaving("add_to_str_or_num", key, val_to_add,
                                  IF IsRaise(back) THEN back ELSE PyTuple(<<back, sum>>),
                                  DictSet(db, k, sum))
           ELSE Return("add_to_str_or_num", key, val_to_add, PyBool(FALSE))

exists(key) ==
    /\ pc = "idle"
    /\ UNCHANGED noted
    /\ Return("exists", key, Nil,
              IF _check_key_format_error(key) /= "ok"
              THEN Raise(_check_key_format_error(key))
              ELSE PyBool(_transform_key_forward(key) \in DictKeys(db)))

totalkeys ==
    /\ pc = "idle"
    /\ UNCHANGED noted
    /\ Return("totalkeys", Nil, Nil, PyInt(Len(db)))

list_create(key) ==
    /\ pc = "idle"
    /\ NoteCreate(key, /\ _check_key_format_error(key) = "ok"
                       /\ _transform_key_forward(key) \notin DictKeys(db))
    /\ LET k == _transform_key_forward(key)
       IN  IF _check_key_format_error(key) /= "ok"
           THEN Return("list_create", key, Nil, Raise(_check_key_format_error(key)))
           ELSE IF k \notin DictKeys(db)
                THEN ReturnSaving("list_create", key, Nil, PyNone,
                                  DictSet(db, k, PyList(<<>>)))
           ELSE ReturnSaving("list_create", key, Nil, PyNone,
                             DictSet(db, k, PyList(<<DictGet(db, k)>>)))

\* list_add calls append and returns nothing; an exception of append passes through.
list_add(key, val) ==
    /\ pc = "idle"
    /\ NoteAdd(key, val)
    /\ LET out == append_outcome(db, key, val)
           ret == IF IsRaise(out[1]) THEN out[1] ELSE PyNone
       IN  IF out[3] THEN ReturnSaving("list_add", key, val, ret, out[2])
           ELSE Return("list_add", key, val, ret)

\* The bare except catches the TypeError of list() too.
list_getall(key) ==
    /\ pc = "idle"
    /\ UNCHANGED noted
    /\ LET k == _transform_key_forward(key)
       IN  Return("list_getall", key, Nil,
                  IF _check_key_format_error(key) /= "ok"
                  THEN Raise(_check_key_format_error(key))
                  ELSE IF k \notin DictKeys(db) THEN PyBool(FALSE)
                  ELSE IF IsRaise(list(DictGet(db, k))) THEN PyBool(FALSE)
                  ELSE list(DictGet(db, k)))

list_extend(key, iterable_val) ==
    /\ pc = "idle"
    /\ NoteWrite(key)
    /\ LET k == _transform_key_forward(key)
       IN  IF _check_key_format_error(key) /= "ok"
           THEN Return("list_extend", key, iterable_val,
                       Raise(_check_key_format_error(key)))
           ELSE IF ~IsIterable(iterable_val) \/ k \notin DictKeys(db)
                THEN Return("list_extend", key, iterable_val, PyBool(FALSE))
           ELSE IF IsRaise(list(DictGet(db, k)))
                THEN Return("list_extend", key, iterable_val, list(DictGet(db, k)))
           ELSE LET val == PyList(list(DictGet(db, k))[2] \o Iterate(iterable_val))
                IN  ReturnSaving("list_extend", key, iterable_val,
                                 PyTuple(<<key, val>>), DictSet(db, k, val))

list_empty(key) ==
    /\ pc = "idle"
    /\ NoteWrite(key)
    /\ LET k == _transform_key_forward(key)
       IN  IF _check_key_format_error(key) /= "ok"
           THEN Return("list_empty", key, Nil, Raise(_check_key_format_error(key)))
           ELSE IF k \in DictKeys(db) /\ isinstance(DictGet(db, k), {"list"})
                THEN ReturnSaving("list_empty", key, Nil, PyBool(TRUE),
                                  DictSet(db, k, PyList(<<>>)))
           ELSE Return("list_empty", key, Nil, PyBool(FALSE))

-----------------------------------------------------------------------------
(* save(): lines 99-101 on the calling thread, _save (lines 90-93) on the  *)
(* worker.  The calling thread waits in join() while the worker runs.  An  *)
(* exception in the worker ends the worker; join() returns all the same.   *)

save ==
    /\ pc = "idle"
    /\ last' = Call("save", Nil, Nil, PyNone, FALSE)
    /\ save_line99
    /\ UNCHANGED <<db, auto_save, file, tmp, noted, budget, tempdir, term>>

\* save(), line 100: self.save_thread.start()
thread_start ==
    /\ pc = "line100"
    /\ save_thread' = "running"
    /\ pc' = "line90"
    /\ UNCHANGED <<db, auto_save, file, tmp, last, noted, budget, tempdir, term>>

\* The worker ends with an exception: nothing after the failing line runs.
WorkerRaises ==
    /\ save_thread' = "ended"
    /\ last' = [last EXCEPT !.worker = "raised"]
    /\ pc' = "line101"

\* The worker reaches the end of _save.
WorkerEnds ==
    /\ save_thread' = "ended"
    /\ last' = [last EXCEPT !.worker = "ok"]
    /\ pc' = "line101"

\* _save, line 90: NamedTemporaryFile(mode="w", delete=False) creates an
\* empty file in the default temporary directory, or fails with OSError.
_save_open ==
    /\ pc = "line90"
    /\ \/ tmp' = FileOf(<<>>) /\ pc' = "line91" /\ UNCHANGED <<save_thread, last>>
       \/ tmp' = NoFile /\ WorkerRaises
    /\ UNCHANGED <<db, auto_save, file, noted, budget, tempdir, term>>

\* The data a write of text that stops early leaves in the file.
Prefixes(text) == {SubSeq(text, 1, n) : n \in 0..(Len(text) - 1)}

\* A variant of _save_dump that writes the text into the target file itself.
_save_dump_in_place ==
    /\ pc = "line91"
    /\ \/ /\ FirstBad(db) = 0
          /\ file' = FileOf(Serialize(db))
          /\ pc' = "line92"
          /\ UNCHANGED <<save_thread, last>>
       \/ /\ FirstBad(db) /= 0
          /\ file' = FileOf(DumpOutput(db))
          /\ WorkerRaises
       \/ /\ \E part \in Prefixes(DumpOutput(db)) : file' = FileOf(part)
          /\ WorkerRaises
    /\ UNCHANGED <<db, auto_save, tmp, noted, budget, tempdir, term>>

\* _save, line 91 and the end of the with block: json.dump writes the dict
\* and the file is closed.  json.dump raises TypeError at a value it cannot
\* write; a write or the closing flush can fail with OSError, leaving any
\* part of the text.
_save_dump ==
    /\ pc = "line91"
    /\ \/ /\ FirstBad(db) = 0
          /\ tmp' = FileOf(Serialize(db))
          /\ pc' = "line92"
          /\ UNCHANGED <<save_thread, last>>
       \/ /\ FirstBad(db) /= 0
          /\ tmp' = FileOf(DumpOutput(db))
          /\ WorkerRaises
       \/ /\ \E part \in Prefixes(DumpOutput(db)) : tmp' = FileOf(part)
          /\ WorkerRaises
    /\ UNCHANGED <<db, auto_save, file, noted, budget, tempdir, term>>

\* _save, lines 92-93: os.replace(f.name, self.location) if the temporary
\* file is not empty.  os.replace puts the temporary file in the target's
\* place in one step, or fails with OSError and changes nothing.  It always
\* fails (EXDEV) when the temporary file is on another filesystem.
_save_replace ==
    /\ pc = "line92"
    /\ \/ /\ Len(tmp.data) /= 0
          /\ tempdir = "same_fs"
          /\ file' = tmp
          /\ tmp' = NoFile
          /\ WorkerEnds
       \/ /\ Len(tmp.data) = 0
          /\ WorkerEnds
          /\ UNCHANGED <<file, tmp>>
       \/ /\ Len(tmp.data) /= 0
          /\ WorkerRaises
          /\ UNCHANGED <<file, tmp>>
    /\ UNCHANGED <<db, auto_save, noted, budget, tempdir, term>>

\* A variant of thread_join in which join() does not wait for the worker.
thread_join_no_wait ==
    /\ pc \in {"line90", "line91", "line92", "line101"}
    /\ term = "no"
    /\ pc' = "ret"
    /\ UNCHANGED <<db, auto_save, file, tmp, save_thread, last, noted, budget, tempdir, term>>

\* save(), line 101: join() returns once the worker has ended, and save()
\* returns to its caller.
thread_join ==
    /\ pc = "line101"
    /\ term = "no"
    /\ pc' = "ret"
    /\ UNCHANGED <<db, auto_save, file, tmp, save_thread, last, noted, budget, tempdir, term>>

\* The process is killed (SIGKILL, power loss) between calls or at any
\* point of a save: the store in memory is gone, the files stay as they
\* are.  A kill while json.dump is writing leaves any part of the text in
\* the temporary file.
Kill ==
    /\ pc \notin {"down", "ret"}
    /\ pc' = "down"
    /\ db' = <<>>
    /\ save_thread' = "none"
    /\ last' = NoCall
    /\ noted' = Nil
    /\ IF pc = "line91"
       THEN \E part \in Prefixes(DumpOutput(db)) : tmp' = FileOf(part)
       ELSE UNCHANGED tmp
    /\ term' = "no"
    /\ UNCHANGED <<auto_save, file, budget, tempdir>>

\* KvickStore(location, auto_save) in a new process: the dict is read from
\* the file (load, _load); a file that is neither empty nor a JSON object
\* raises ValueError and there is no store.  A file that holds another JSON
\* value gives a store whose db is that value (pc = "nodict"); the calls
\* of such a store are not followed.
load(auto) ==
    /\ pc = "down"
    /\ auto_save' = auto
    /\ IF IsRaise(LoadResult(file))
       THEN /\ last' = Call("load", Nil, PyBool(auto), LoadResult(file), FALSE)
            /\ UNCHANGED <<db, pc>>
       ELSE /\ last' = Call("load", Nil, PyBool(auto), PyNone, FALSE)
            /\ db' = LoadResult(file)[2]
            /\ pc' = IF LoadResult(file)[1] = "other" THEN "nodict" ELSE "ret"
    /\ tmp' = NoFile
    /\ term' = "no"
    /\ UNCHANGED <<file, save_thread, noted, budget, tempdir>>

-----------------------------------------------------------------------------
(* SIGTERM.  __init__ installs sigterm_handler (set_sigterm_handler, lines *)
(* 47-57); Python runs it on the main thread, between two of its           *)
(* instructions or while it waits in join().                               *)

\* The process ends through the handler: the store in memory is gone.
ProcessEnds(how) ==
    /\ term' = how
    /\ pc' = "down"
    /\ db' = <<>>
    /\ save_thread' = "none"
    /\ last' = NoCall
    /\ noted' = Nil
    /\ UNCHANGED <<auto_save, file, tmp, budget, tempdir>>

\* sigterm_handler, lines 53-55: with no save_thread, or one that has
\* ended, join() returns at once and sys.exit(0) follows; join() of a
\* Thread that was created (line 99) and not yet started (line 100) raises
\* RuntimeError; join() of a running worker waits.
sigterm_handler ==
    /\ pc /= "down"
    /\ term = "no"
    /\ IF save_thread = "new" THEN ProcessEnds("raised")
       ELSE IF save_thread = "running"
       THEN /\ term' = "join"
            /\ UNCHANGED <<db, auto_save, file, tmp, pc, save_thread, last, noted,
                           budget, tempdir>>
       ELSE ProcessEnds("exit0")

\* sigterm_handler, line 55: the worker has ended, join() returns and
\* sys.exit(0) ends the process.
sigterm_exit ==
    /\ term = "join"
    /\ save_thread = "ended"
    /\ ProcessEnds("exit0")

-----------------------------------------------------------------------------
(* The specifications *)

\* The state after KvickStore(location, auto_save) on one of the files.
InitOn(files, autos, calls, dirs) ==
    /\ file \in files
    /\ auto_save \in autos
    /\ tempdir \in dirs
    /\ term = "no"
    /\ tmp = NoFile
    /\ save_thread = "none"
    /\ noted = Nil
    /\ budget = calls
    /\ IF IsRaise(LoadResult(file))
       THEN /\ db = <<>>
            /\ pc = "down"
            /\ last = Call("load", Nil, PyBool(auto_save), LoadResult(file), FALSE)
       ELSE IF LoadResult(file)[1] = "other"
       THEN /\ db = LoadResult(file)[2]
            /\ pc = "nodict"
            /\ last = Call("load", Nil, PyBool(auto_save), PyNone, FALSE)
       ELSE /\ db = LoadResult(file)[2]
            /\ pc = "ret"
            /\ last = Call("load", Nil, PyBool(auto_save), PyNone, FALSE)

\* The calls of a caller that uses keys K, values V and iterables I.
Calls(K, V, I) ==
    \/ \E k \in K, v \in V : set(k, v)
    \/ \E k \in K : get(k)
    \/ \E k \in K : rm(k)
    \/ get_all_keys
    \/ get_all_values
    \/ \E k \in K, v \in V : append(k, v)
    \/ \E k \in K, v \in V : add_to_str_or_num(k, v)
    \/ \E k \in K : exists(k)
    \/ totalkeys
    \/ \E k \in K : list_create(k)
    \/ \E k \in K, v \in V : list_add(k, v)
    \/ \E k \in K : list_getall(k)
    \/ \E k \in K, v \in I : list_extend(k, v)
    \/ \E k \in K : list_empty(k)
    \/ save
    \/ call_returns

\* The steps of a save in progress; the process killed and started again.
Steps ==
    \/ thread_start
    \/ _save_open
    \/ _save_dump
    \/ _save_replace
    \/ thread_join
    \/ Kill
    \/ \E a \in BOOLEAN : load(a)

S5 == <<"5">>
S12 == <<"(", "1", ",", " ", "2", ")">>
Sab == <<"a", "b">>

\* The store with every operation and the save protocol: a number key and
\* the string of the same text, a key of an unsupported type, a reserved
\* string; a value json.dump cannot write.
Keys == {PyInt(5), PyStr(S5), PyNone, PyStr(NumPrefix \o S5)}
Values == {PyInt(1), PyTuple(<<PyInt(1)>>), PySet}
Iterables == {PyList(<<PyInt(1)>>), PyInt(1)}
Files == {NoFile, FileOf(<<>>), FileOf(<<LBrace>>),
          FileOf(Serialize(<<<<S5, PyInt(1)>>>>)),
          FileOf(<<ValChunk(PyList(<<PyInt(1)>>))>>), FileOf(<<ValChunk(PyInt(1))>>)}

MaxCalls == 2

Init == InitOn(Files, BOOLEAN, MaxCalls, {"same_fs"})
Next == Calls(Keys, Values, Iterables) \/ Steps
Spec == Init /\ [][Next]_vars

\* The key codec through set, get, rm, exists and the listing calls, on
\* keys of every kind.
WideKeys ==
    {PyInt(5), PyFloat(10), PyInf, PyStr(S5), PyTuple(<<PyInt(1), PyInt(2)>>),
     PyStr(S12), PyBool(TRUE), PyNone, PyStr(NumPrefix \o S5)}
TwoValues == {PyInt(1), PyStr(Sab)}

KeyCalls(K, V) ==
    \/ \E k \in K, v \in V : set(k, v)
    \/ \E k \in K : get(k)
    \/ \E k \in K : rm(k)
    \/ \E k \in K : exists(k)
    \/ get_all_keys
    \/ totalkeys
    \/ call_returns

InitKeys == InitOn({NoFile}, {FALSE}, MaxCalls, {"same_fs"})
NextKeys == KeyCalls(WideKeys, TwoValues)
SpecKeys == InitKeys /\ [][NextKeys]_vars

\* A save of a small store step by step, with the temporary directory on
\* the target's filesystem or on another, and SIGTERM at any point.
SaveCalls(K, V) ==
    \/ \E k \in K, v \in V : set(k, v)
    \/ \E k \in K : get(k)
    \/ save
    \/ call_returns

InitSave ==
    InitOn({NoFile, FileOf(Serialize(<<<<S5, PyInt(1)>>>>))}, BOOLEAN, MaxCalls,
           {"same_fs", "other_fs"})
NextSave ==
    \/ SaveCalls({PyStr(S5), PyInt(5)}, {PyInt(1), PyStr(Sab)})
    \/ Steps
    \/ sigterm_handler
    \/ sigterm_exit
SpecSave == InitSave /\ [][NextSave]_vars

\* The methods that work on the stored value, on values of every JSON kind.
ValKeys == {PyStr(Sab), PyInt(5)}
WideValues ==
    {PyInt(1), PyBool(FALSE), PyStr(Sab), PyNone, PyDict(<<<<PyStr(Sab), PyInt(1)>>>>)}
WideIterables == {PyList(<<PyInt(1)>>), PyStr(Sab), PyInt(1)}

ValCalls(K, V, I) ==
    \/ \E k \in K, v \in V : set(k, v)
    \/ \E k \in K : get(k)
    \/ \E k \in K : rm(k)
    \/ \E k \in K, v \in V : append(k, v)
    \/ \E k \in K, v \in V : add_to_str_or_num(k, v)
    \/ \E k \in K : exists(k)
    \/ \E k \in K : list_create(k)
    \/ \E k \in K, v \in V : list_add(k, v)
    \/ \E k \in K : list_getall(k)
    \/ \E k \in K, v \in I : list_extend(k, v)
    \/ \E k \in K : list_empty(k)
    \/ call_returns

MaxValCalls == 3

InitVals == InitOn({NoFile}, {FALSE}, MaxValCalls, {"same_fs"})
NextVals == ValCalls(ValKeys, WideValues, WideIterables)
SpecVals == InitVals /\ [][NextVals]_vars

-----------------------------------------------------------------------------
(* Properties *)

\* The methods that take a key.
KeyOps == {"set", "get", "exists", "rm", "append", "add_to_str_or_num",
           "list_create", "list_add", "list_getall", "list_extend", "list_empty"}

IsNumKey(k) == k[1] \in {"int", "float"}
IsTextKey(k) == k[1] = "str" /\ ~startswith(k[2], NumPrefix)

\* What a reload gives for a file that holds the whole of the dict d.
Reloaded(d) == <<"ok", [i \in 1..Len(d) |-> <<d[i][1], Jsonify(d[i][2])>>]>>

\* C1: after set(k, v), get(k) returns v until the caller writes to k again,
\* whatever it does with other keys.
C1_SetThenGet ==
    (noted /= Nil /\ noted[1] = "set") => get_result(db, noted[2]) = noted[3]

\* C2: the target file changes only in the step that puts the completely
\* written temporary file in its place; every other step of a save, a failure
\* at any step, and a kill at any step, leave the target as it was.
C2_SaveIsAtomic ==
    [][\/ file' = file
       \/ /\ pc = "line92"
          /\ save_thread = "running"
          /\ file' = FileOf(Serialize(db))]_vars

\* A save was killed in the middle of its write: the temporary file holds a
\* part of the text and the target holds a complete object.
C2_Witness ==
    /\ pc = "down"
    /\ tmp.exists
    /\ tmp.data /= <<>>
    /\ ~IsObjectText(tmp.data)
    /\ file.exists
    /\ IsObjectText(file.data)

\* C3: when an explicit save() has returned, loading the file gives the
\* store's keys with the JSON forms of their values.
C3_SaveThenLoad ==
    (pc = "ret" /\ last.op = "save") => LoadResult(file) = Reloaded(db)

\* C4: with auto-save on, when a modifying call has returned after changing
\* the store, the file exists and a reload gives the store as it is now.
C4_AutoSavePersists ==
    (pc = "ret" /\ auto_save /\ last.wrote)
        => (file.exists /\ LoadResult(file) = Reloaded(db))

\* C5: a call whose save failed returns an error to its caller.
C5_SaveFailureSurfaces ==
    (pc = "ret" /\ last.worker = "raised") => IsRaise(last.ret)

\* C6: a call of a key method with a key that fails validation raises the
\* validation error and changes neither the store nor the file, and starts
\* no save, with auto-save on or off.
C6_RejectedKeyNoEffect ==
    [][(/\ pc = "idle"
        /\ last'.op \in KeyOps
        /\ _check_key_format_error(last'.key) /= "ok")
       => /\ last'.ret = Raise(_check_key_format_error(last'.key))
          /\ ~last'.wrote
          /\ pc' = "ret"
          /\ UNCHANGED <<db, file, tmp, save_thread, auto_save>>]_vars

\* append with a reserved key was rejected on a store with auto-save on, an
\* entry in the dict and a file on disk.
C6_Witness ==
    /\ pc = "ret"
    /\ last.op = "append"
    /\ last.ret = Raise("ValueError")
    /\ auto_save
    /\ db /= <<>>
    /\ file.exists

\* C7: a key method raises TypeError for a key that is not an int, float,
\* str, list or tuple (a bool included), ValueError for a str that starts
\* with the reserved prefix, and neither for any other key.
C7_KeyValidation ==
    (pc = "ret" /\ last.op \in KeyOps) =>
        IF last.key[1] \notin KeyTypes THEN last.ret = Raise("TypeError")
        ELSE IF last.key[1] = "str" /\ startswith(last.key[2], NumPrefix)
             THEN last.ret = Raise("ValueError")
        ELSE ~IsRaise(last.ret)

\* C8: after set with a str key, the key listing (when it can be made) has
\* that str at the entry's place.
C8_StrKeyRoundTrip ==
    (pc = "ret" /\ last.op = "set" /\ last.key[1] = "str" /\ last.wrote) =>
        LET listing == get_all_keys_result(db)
            i == DictIndex(db, _transform_key_forward(last.key))
        IN  IsRaise(listing) \/ listing[2][i] = last.key

\* C9: after set with an int or float key, the dict key of the entry is the
\* reserved prefix and the text of the number, and decodes to that number.
C9_NumKeyRoundTrip ==
    (pc = "ret" /\ last.op = "set" /\ IsNumKey(last.key) /\ last.wrote) =>
        LET i == DictIndex(db, _transform_key_forward(last.key))
        IN  /\ db[i][1] = NumPrefix \o PyRepr(last.key)
            /\ _transform_key_backward(db[i][1]) = last.key

\* C10: a set with a number key and a str key that does not start with the
\* prefix never meet: the set of one keeps what get returns for the other,
\* get of the key set returns the value set, and the count grows by one when
\* the other was stored and the key set was not.
C10_NumberAndStringApart ==
    [][(pc = "idle" /\ last'.op = "set" /\ last'.wrote) =>
        \A o \in Keys \cup WideKeys :
            (\/ IsNumKey(last'.key) /\ IsTextKey(o)
             \/ IsTextKey(last'.key) /\ IsNumKey(o))
            => /\ _transform_key_forward(o) /= _transform_key_forward(last'.key)
               /\ get_result(db', o) = get_result(db, o)
               /\ get_result(db', last'.key) = last'.val
               /\ (/\ _transform_key_forward(o) \in DictKeys(db)
                   /\ _transform_key_forward(last'.key) \notin DictKeys(db))
                  => Len(db') = Len(db) + 1]_vars

\* set(5, ...) and then set("5", ...) with another value: two entries, each
\* key with its own value.
C10_Witness ==
    /\ pc = "ret"
    /\ last.op = "set"
    /\ last.key = PyStr(S5)
    /\ Len(db) = 2
    /\ get_result(db, PyInt(5)) = PyInt(1)
    /\ get_result(db, PyStr(S5)) = PyTuple(<<PyInt(1)>>)

\* The key of the call passes validation and has, or has not, an entry.
Present(d, key) ==
    _check_key_format_error(key) = "ok" /\ _transform_key_forward(key) \in DictKeys(d)
Absent(d, key) ==
    _check_key_format_error(key) = "ok" /\ _transform_key_forward(key) \notin DictKeys(d)

\* C11: a get that returns a result returns False exactly when the key has
\* no entry.
C11_GetFalseIffAbsent ==
    (pc = "ret" /\ last.op = "get" /\ ~IsRaise(last.ret))
        => (last.ret = PyBool(FALSE) <=> Absent(db, last.key))

\* C12: rm of a key that has no entry returns False, leaves the dict as it
\* is, and returns without starting a save or touching a file, with
\* auto-save on or off.
C12_RmAbsent ==
    [][(pc = "idle" /\ last'.op = "rm" /\ Absent(db, last'.key))
       => /\ last'.ret = PyBool(FALSE)
          /\ pc' = "ret"
          /\ UNCHANGED <<db, file, tmp, save_thread>>]_vars

\* rm of an absent key has returned False on a store with auto-save on and
\* another entry in the dict.
C12_Witness ==
    /\ pc = "ret"
    /\ last.op = "rm"
    /\ last.ret = PyBool(FALSE)
    /\ auto_save
    /\ db /= <<>>

\* C13: rm of a key that has an entry returns the pair of the caller's key
\* and the entry's value; afterwards the key has no entry, the dict is one
\* entry shorter, and the other entries are as before, in the same order.
C13_RmPresent ==
    [][(pc = "idle" /\ last'.op = "rm" /\ Present(db, last'.key))
       => LET k == _transform_key_forward(last'.key)
              i == DictIndex(db, k)
          IN  /\ last'.ret = PyTuple(<<last'.key, db[i][2]>>)
              /\ Absent(db', last'.key)
              /\ Len(db') = Len(db) - 1
              /\ db' = [j \in 1..(Len(db) - 1) |-> IF j < i THEN db[j] ELSE db[j + 1]]]_vars

\* rm(5) has removed the entry of a two-entry dict and returned the pair
\* with the int 5; the other entry is left.
C13_Witness ==
    /\ pc = "ret"
    /\ last.op = "rm"
    /\ last.key = PyInt(5)
    /\ last.ret = PyTuple(<<PyInt(5), PyInt(1)>>)
    /\ Len(db) = 1

\* A number, and a string, as values: a bool is neither.
IsNumber(v) == v[1] \in {"int", "float"}
IsText(v) == v[1] = "str"

\* C14: add_to_str_or_num(k, d) on an entry with value v stores the sum when
\* v and d are numbers and the concatenation when both are strings, the
\* other entries staying as they are; in every other case, and when k has
\* no entry, it returns False, leaves the dict as it is and starts no save.
C14_AddToStrOrNum ==
    [][(/\ pc = "idle"
        /\ last'.op = "add_to_str_or_num"
        /\ _check_key_format_error(last'.key) = "ok")
       => LET k == _transform_key_forward(last'.key)
              d == last'.val
          IN  IF Present(db, last'.key) /\ IsNumber(DictGet(db, k)) /\ IsNumber(d)
              THEN /\ IsNumber(DictGet(db', k))
                   /\ Halves(DictGet(db', k)) = Halves(DictGet(db, k)) + Halves(d)
                   /\ db' = DictSet(db, k, DictGet(db', k))
              ELSE IF Present(db, last'.key) /\ IsText(DictGet(db, k)) /\ IsText(d)
              THEN db' = DictSet(db, k, PyStr(DictGet(db, k)[2] \o d[2]))
              ELSE /\ last'.ret = PyBool(FALSE)
                   /\ pc' = "ret"
                   /\ UNCHANGED <<db, file, tmp, save_thread>>]_vars

\* C15: list_getall of a key the caller made a list of with list_create, on
\* no entry, and list_add, with no other write to the key since, returns
\* the items added, in the order they were added.
C15_ListBuiltInOrder ==
    (/\ pc = "ret"
     /\ last.op = "list_getall"
     /\ noted /= Nil
     /\ noted[1] = "list"
     /\ noted[2] = last.key)
        => last.ret = noted[3]

\* list_create, list_add of 1, list_add of "ab", and list_getall has
\* returned [1, "ab"].
C15_Witness ==
    /\ pc = "ret"
    /\ last.op = "list_getall"
    /\ noted = <<"list", last.key, PyList(<<PyInt(1), PyStr(Sab)>>)>>
    /\ last.ret = PyList(<<PyInt(1), PyStr(Sab)>>)

\* C16: append(k, item) and list_extend(k, items) on an entry whose value v
\* is not a list or tuple store [v] followed by the item, or the items, and
\* return the pair of k and that list.
C16_CoerceThenAppend ==
    [][(/\ pc = "idle"
        /\ last'.op \in {"append", "list_extend"}
        /\ Present(db, last'.key)
        /\ DictGet(db, _transform_key_forward(last'.key))[1] \notin {"list", "tuple"}
        /\ (last'.op = "list_extend" => IsIterable(last'.val)))
       => LET k == _transform_key_forward(last'.key)
              items == IF last'.op = "append" THEN <<last'.val>> ELSE Iterate(last'.val)
              new == PyList(<<DictGet(db, k)>> \o items)
          IN  /\ last'.ret = PyTuple(<<last'.key, new>>)
              /\ db' = DictSet(db, k, new)]_vars

C18_LoadRejectsNonObject ==
    /\ (/\ last.op = "load"
        /\ file.exists
        /\ file.data /= <<>>
        /\ ~IsObjectText(file.data))
           => last.ret = Raise("ValueError")
    /\ pc /= "nodict"

\* C19: list_add(k, item) changes the dict as append(k, item) does and
\* returns what append returns: the pair of k and the new list on an entry,
\* False on no entry.
C19_ListAddIsAppend ==
    [][(pc = "idle" /\ last'.op = "list_add")
       => /\ last'.ret = append_outcome(db, last'.key, last'.val)[1]
          /\ db' = append_outcome(db, last'.key, last'.val)[2]]_vars

\* The methods that change the dict, and those that only read it.
MutatingOps == {"set", "rm", "append", "add_to_str_or_num", "list_create",
                "list_add", "list_extend", "list_empty"}
ReadOps == {"get", "exists", "totalkeys", "get_all_keys", "get_all_values",
            "list_getall"}

\* C20: the file changes only during save(), or during a modifying call
\* that changed the dict on a store with auto-save on; and a call of a
\* store with auto-save off, a call that only reads, and a call that ends
\* with a validation error or with False, returns without starting a save
\* or touching a file.
C20_FileWrittenOnlyBySave ==
    [][/\ file' /= file
          => \/ last.op = "save"
             \/ auto_save /\ last.wrote /\ last.op \in MutatingOps
       /\ (/\ pc = "idle"
           /\ last'.op \in MutatingOps \cup ReadOps
           /\ \/ ~auto_save
              \/ last'.op \in ReadOps
              \/ last'.ret = PyBool(FALSE)
              \/ /\ last'.op \in KeyOps
                 /\ _check_key_format_error(last'.key) /= "ok")
          => /\ pc' = "ret"
             /\ UNCHANGED <<file, tmp, save_thread>>]_vars

\* With auto-save on, add_to_str_or_num has returned False on a store that
\* has an entry and no file (the save of the entry failed): no file was
\* made.
C20_Witness ==
    /\ pc = "ret"
    /\ auto_save
    /\ last.op = "add_to_str_or_num"
    /\ last.ret = PyBool(FALSE)
    /\ db /= <<>>
    /\ ~file.exists

\* C21: the SIGTERM handler never raises, and it calls sys.exit(0) only
\* when no save worker is assigned or the assigned worker has ended.
C21_SigtermAwaitsSave ==
    [][/\ term' /= "raised"
       /\ (term /= "exit0" /\ term' = "exit0") => save_thread \in {"none", "ended"}]_vars

\* C22: save(), and a modifying call that saves, returns only when its
\* worker has ended; while a worker is assigned and has not ended the dict
\* does not change and no call starts; and the text that replaces the file
\* is the serialization of the dict as it is then.
C22_SaveIsSynchronous ==
    [][/\ (pc /= "ret" /\ pc' = "ret" /\ last'.op /= "load"
           /\ (last'.op = "save" \/ (auto_save /\ last'.wrote)))
          => (save_thread' = "ended" /\ last'.worker \in {"ok", "raised"})
       /\ (save_thread \in {"new", "running"} /\ pc' /= "down")
          => (db' = db /\ last'.op = last.op /\ last'.key = last.key)
       /\ file' /= file
          => (save_thread = "running" /\ file' = FileOf(Serialize(db)) /\ db' = db)]_vars

\* save() has returned after its worker put the text of a dict with an
\* entry in the file's place.
C22_Witness ==
    /\ pc = "ret"
    /\ last.op = "save"
    /\ last.worker = "ok"
    /\ save_thread = "ended"
    /\ db /= <<>>
    /\ file = FileOf(Serialize(db))

\* C23: two different keys that pass validation have different dict keys:
\* a set with one of them leaves what get returns for the other.
C23_EncodingInjective ==
    [][(pc = "idle" /\ last'.op = "set" /\ last'.wrote) =>
        \A o \in WideKeys :
            (_check_key_format_error(o) = "ok" /\ o /= last'.key)
            => /\ _transform_key_forward(o) /= _transform_key_forward(last'.key)
               /\ get_result(db', o) = get_result(db, o)]_vars

\* C24: when a save is at its rename, the temporary file is on the
\* filesystem of the target.
C24_TempFileBesideTarget ==
    (pc = "line92" /\ tmp.exists) => tempdir = "same_fs"

=============================================================================
